---- MODULE Spec2Model ----
(***************************************************************************)
(* A model of the invoice parser: the Document Aggregator                  *)
(* (src/aggregater.py), the Primary Selector, the Forms Key-Value parser   *)
(* and the line-item resolver (src/expense_parser.py) and the forms        *)
(* fallback of process_local_pdf (src/main.py).                            *)
(*                                                                         *)
(* A Python str is a sequence of one-character strings, Python's None is   *)
(* the value None, a dict with fixed keys is a record and a list is a      *)
(* sequence.                                                               *)
(***************************************************************************)
EXTENDS Integers, Sequences, FiniteSets, TLC

VARIABLES pc,            \* which operation has run: "input" before, then its name
          docs,          \* the list object handed to merge / choose_primary
          docs_in,       \* what that list held when the operation was called
          group_sorted,  \* merge: per group, the indices of docs in sorted order
          merged,        \* merge: the returned list
          primary,       \* choose_primary: the returned document
          primary_in,    \* process_local_pdf: primary before the forms fallback
          fpages,        \* the pages of the forms analysis, each a list of blocks
          fstatus,       \* the status the forms job ended with
          kv,            \* parse_forms_key_values: the returned dict, as the
                         \* sequence of its items [k, v] in insertion order
          fields,        \* li_extract: the LineItemExpenseFields of one line item
          locals,        \* li_extract: its local variables when it returned
          row,           \* li_extract: the returned dict
          items,         \* sanitize_line_items: the rows it is given
          kept,          \* sanitize_line_items: the positions of the rows appended
          cleaned,       \* sanitize_line_items: the returned list
          results_pages, \* parse_expense_documents: the pages it is given
          parsed         \* parse_expense_documents: the returned list

vars == <<pc, docs, docs_in, group_sorted, merged, primary, primary_in,
          fpages, fstatus, kv, fields, locals, row, items, kept, cleaned,
          results_pages, parsed>>

----------------------------------------------------------------------------
(* Python values *)

None == <<"None">>

\* str.strip() removes these from both ends
Whitespace == {" "}

\* bool(v) of an Optional[str]
Truthy(v) == v # None /\ v # <<>>

RECURSIVE LStrip(_)
LStrip(s) ==
    IF s # <<>> /\ Head(s) \in Whitespace THEN LStrip(Tail(s)) ELSE s

RECURSIVE RStrip(_)
RStrip(s) ==
    IF s # <<>> /\ s[Len(s)] \in Whitespace
    THEN RStrip(SubSeq(s, 1, Len(s) - 1))
    ELSE s

Strip(s) == RStrip(LStrip(s))

\* (v or "")
OrEmpty(v) == IF Truthy(v) THEN v ELSE <<>>

RECURSIVE Concat(_)
Concat(ss) == IF ss = <<>> THEN <<>> ELSE Head(ss) \o Concat(Tail(ss))

----------------------------------------------------------------------------
(* decimal.Decimal, and the parsers of utils.py                            *)
(*                                                                         *)
(* A Decimal is [u |-> whole units, f |-> millionths, 0..999999], the      *)
(* value u + f/1000000; the values of the model have at most three         *)
(* fractional digits, so that a product of two of them is exact.           *)

Million == 1000000

\* Python's None where a Decimal is expected
NoneDec == [none |-> TRUE]

Dec(u, f) == [u |-> u, f |-> f]

\* the Decimal of u units and micro millionths, micro of either sign
DecNorm(u, micro) == Dec(u + micro \div Million, micro % Million)

Digits == <<"0", "1", "2", "3", "4", "5", "6", "7", "8", "9">>

IsDigit(c) == \E i \in 1..10 : Digits[i] = c

DigitVal(c) == (CHOOSE i \in 1..10 : Digits[i] = c) - 1

RECURSIVE NatOf(_)
NatOf(s) ==
    IF s = <<>> THEN 0
    ELSE NatOf(SubSeq(s, 1, Len(s) - 1)) * 10 + DigitVal(s[Len(s)])

CurrencySymbols == {"$"}

IsSeparatorOrSymbol(c) == c \in CurrencySymbols \/ c = ","

NotSeparatorOrSymbol(c) == ~IsSeparatorOrSymbol(c)

\* the digits of s after its first ".", padded to six
FracMicro(frac) ==
    NatOf(SubSeq(frac \o <<"0", "0", "0", "0", "0", "0">>, 1, 6))

\* the number a text spells once stripped: digits with at most one "."
NumberOf(t) ==
    LET dots == {k \in 1..Len(t) : t[k] = "."}
        p    == IF dots = {} THEN Len(t) + 1
                ELSE CHOOSE k \in dots : \A l \in dots : k <= l
        int  == SubSeq(t, 1, p - 1)
        frac == SubSeq(t, p + 1, Len(t))
    IN  IF /\ Len(int) + Len(frac) > 0
           /\ \A k \in 1..Len(int) : IsDigit(int[k])
           /\ \A k \in 1..Len(frac) : IsDigit(frac[k])
        THEN Dec(NatOf(int), FracMicro(frac))
        ELSE NoneDec

\* to_decimal_maybe: permissive, tolerant of currency symbols and thousands
\* separators, None on failure
to_decimal_maybe(s) ==
    IF s = None THEN NoneDec
    ELSE NumberOf(SelectSeq(Strip(s), NotSeparatorOrSymbol))

NotComma(c) == c # ","

\* is_currency_like: the text holds a currency symbol, or is a monetary
\* number: digits, thousands separators allowed, and two decimals
is_currency_like(s) ==
    /\ s # None
    /\ \/ \E k \in 1..Len(s) : s[k] \in CurrencySymbols
       \/ LET t == SelectSeq(Strip(s), NotComma)
          IN  /\ Len(t) >= 4
              /\ t[Len(t) - 2] = "."
              /\ \A k \in 1..Len(t) : k # Len(t) - 2 => IsDigit(t[k])

----------------------------------------------------------------------------
(* src/aggregater.py *)

NO_ID == <<"_", "_", "N", "O", "_", "I", "D", "_", "_">>

key_of(d) ==
    LET inv == Strip(OrEmpty(d.invoiceNumber))
    IN  IF inv # <<>> THEN inv ELSE NO_ID

\* The keys of the groups dict, in insertion order
RECURSIVE GroupKeys(_, _)
GroupKeys(ds, seen) ==
    IF ds = <<>> THEN seen
    ELSE LET k == key_of(Head(ds))
         IN  GroupKeys(Tail(ds),
                       IF \E i \in 1..Len(seen) : seen[i] = k
                       THEN seen ELSE Append(seen, k))

\* groups[k]: the documents appended under k, as indices into docs, in input order
RECURSIVE GroupOf(_, _, _)
GroupOf(ds, k, i) ==
    IF i > Len(ds) THEN <<>>
    ELSE (IF key_of(ds[i]) = k THEN <<i>> ELSE <<>>) \o GroupOf(ds, k, i + 1)

\* score(d), in thousandths: the float sum 1+1+1+len/1000.0 times 1000
score(d) ==
      (IF Truthy(d.total) THEN 1000 ELSE 0)
    + (IF Truthy(d.invoiceDate) THEN 1000 ELSE 0)
    + (IF Truthy(d.paymentTerms) THEN 1000 ELSE 0)
    + Len(d.lineItems)

\* an unstable insertion: x goes before the elements it ties with
RECURSIVE InsertDescUnstable(_, _, _)
InsertDescUnstable(sorted, x, keys) ==
    IF sorted = <<>> THEN <<x>>
    ELSE IF keys[Head(sorted)] > keys[x]
         THEN <<Head(sorted)>> \o InsertDescUnstable(Tail(sorted), x, keys)
         ELSE <<x>> \o sorted

\* one step of a stable descending sort: x goes after every element whose
\* key is not smaller
RECURSIVE InsertDesc(_, _, _)
InsertDesc(sorted, x, keys) ==
    IF sorted = <<>> THEN <<x>>
    ELSE IF keys[Head(sorted)] >= keys[x]
         THEN <<Head(sorted)>> \o InsertDesc(Tail(sorted), x, keys)
         ELSE <<x>> \o sorted

\* list.sort / sorted with reverse=True, which is stable: the positions
\* 1..n of a list whose keys are keys[1..n], in sorted order
RECURSIVE SortedDesc(_, _)
SortedDesc(n, keys) ==
    IF n = 0 THEN <<>>
    ELSE InsertDesc(SortedDesc(n - 1, keys), n, keys)

\* sorted(group, key=score, reverse=True)
GroupSorted(group, ds) ==
    LET perm == SortedDesc(Len(group), [k \in 1..Len(group) |-> score(ds[group[k]])])
    IN  [k \in 1..Len(group) |-> group[perm[k]]]

\* a copy that takes the group's key as its invoiceNumber
BaseCopyKeyed(d) == [d EXCEPT !.invoiceNumber = key_of(d)]

\* group_sorted[0].copy(): a new dict with the same items
BaseCopy(d) == d

\* a fill that overwrites whatever base holds
FillFromOverwrite(base, other) ==
    LET b1 == IF Truthy(other.invoiceDate)
              THEN [base EXCEPT !.invoiceDate = other.invoiceDate] ELSE base
        b2 == IF Truthy(other.paymentTerms)
              THEN [b1 EXCEPT !.paymentTerms = other.paymentTerms] ELSE b1
    IN  IF Truthy(other.total)
        THEN [b2 EXCEPT !.total = other.total] ELSE b2

\* the body of the header-fill loop for one `other`
FillFrom(base, other) ==
    LET b1 == IF ~Truthy(base.invoiceDate) /\ Truthy(other.invoiceDate)
              THEN [base EXCEPT !.invoiceDate = other.invoiceDate] ELSE base
        b2 == IF ~Truthy(b1.paymentTerms) /\ Truthy(other.paymentTerms)
              THEN [b1 EXCEPT !.paymentTerms = other.paymentTerms] ELSE b1
    IN  IF ~Truthy(b2.total) /\ Truthy(other.total)
        THEN [b2 EXCEPT !.total = other.total] ELSE b2

\* for other in group_sorted[1:]: ...
RECURSIVE FillHeaders(_, _, _)
FillHeaders(base, others, ds) ==
    IF others = <<>> THEN base
    ELSE FillHeaders(FillFrom(base, ds[Head(others)]), Tail(others), ds)

\* all_items: extend with every member's lineItems, in sorted order
AllItems(gs, ds) == Concat([i \in 1..Len(gs) |-> ds[gs[i]].lineItems])

MergeGroup(gs, ds) ==
    LET base == FillHeaders(BaseCopy(ds[gs[1]]), Tail(gs), ds)
    IN  [base EXCEPT !.lineItems = AllItems(gs, ds)]

\* the sorted groups, in the order of groups.items()
GroupsSorted(ds) ==
    LET keys == GroupKeys(ds, <<>>)
    IN  [g \in 1..Len(keys) |-> GroupSorted(GroupOf(ds, keys[g], 1), ds)]

merge_documents_by_invoice_number(ds) ==
    LET gss == GroupsSorted(ds)
    IN  [g \in 1..Len(gss) |-> MergeGroup(gss[g], ds)]

----------------------------------------------------------------------------
(* src/expense_parser.py: choose_primary_document *)

\* any(x.values()) of a line item
AnyValue(x) ==
    \/ Truthy(x.description) \/ Truthy(x.quantity)
    \/ Truthy(x.unitPrice) \/ Truthy(x.amount)

\* the sort key: len([x for x in d.get("lineItems", []) if any(x.values())])
NonEmptyRows(d) == Len(SelectSeq(d.lineItems, AnyValue))

HasTotal(d) == to_decimal_maybe(d.total) # NoneDec

\* with_total, as positions of docs
WithTotal(ds) == SelectSeq([i \in 1..Len(ds) |-> i], LAMBDA i : HasTotal(ds[i]))

\* every position is a candidate, whatever the total
CandidatesAll(ds) == [i \in 1..Len(ds) |-> i]

\* candidates = with_total if with_total else docs
Candidates(ds) ==
    IF WithTotal(ds) # <<>> THEN WithTotal(ds) ELSE [i \in 1..Len(ds) |-> i]

\* candidates after candidates.sort(key=..., reverse=True)
CandidatesSorted(ds) ==
    LET c    == Candidates(ds)
        perm == SortedDesc(Len(c), [k \in 1..Len(c) |-> NonEmptyRows(ds[c[k]])])
    IN  [k \in 1..Len(c) |-> ds[c[perm[k]]]]

\* the list object docs after the call: candidates is docs itself when
\* with_total is empty, and list.sort sorts in place
DocsAfterChoose(ds) ==
    IF ds # <<>> /\ WithTotal(ds) = <<>> THEN CandidatesSorted(ds) ELSE ds

choose_primary_document(ds) ==
    IF ds = <<>> THEN None ELSE CandidatesSorted(ds)[1]

----------------------------------------------------------------------------
(* src/expense_parser.py: the FORMS fallback parser *)

UpperCase == <<"A", "B", "C", "D", "E", "F", "G", "H", "I", "J", "K", "L", "M",
               "N", "O", "P", "Q", "R", "S", "T", "U", "V", "W", "X", "Y", "Z">>

LowerCase == <<"a", "b", "c", "d", "e", "f", "g", "h", "i", "j", "k", "l", "m",
               "n", "o", "p", "q", "r", "s", "t", "u", "v", "w", "x", "y", "z">>

LowerChar(c) ==
    IF \E i \in 1..26 : UpperCase[i] = c
    THEN LowerCase[CHOOSE i \in 1..26 : UpperCase[i] = c]
    ELSE c

\* str.lower()
Lower(s) == [k \in 1..Len(s) |-> LowerChar(s[k])]

\* " ".join(parts)
RECURSIVE Join(_)
Join(parts) ==
    IF parts = <<>> THEN <<>>
    ELSE IF Len(parts) = 1 THEN parts[1]
    ELSE parts[1] \o <<" ">> \o Join(Tail(parts))

\* id_map.get(id, {}): the last block of the page with that Id, or a dict
\* without keys
Absent == "(absent)"

NoBlock == [Id |-> 0, BlockType |-> Absent, EntityTypes |-> <<>>,
            Relationships |-> <<>>, Text |-> <<>>, SelectionStatus |-> Absent]

IdMapGet(blocks, id) ==
    LET at == {k \in 1..Len(blocks) : blocks[k].Id = id}
    IN  IF at = {} THEN NoBlock
        ELSE blocks[CHOOSE k \in at : \A l \in at : l <= k]

\* what one child id adds to parts
PartsOfChild(cb) ==
    IF cb.BlockType = "WORD" THEN <<cb.Text>>
    ELSE IF cb.BlockType = "SELECTION_ELEMENT" /\ cb.SelectionStatus = "SELECTED"
         THEN <<<<"X">>>>
         ELSE <<>>

PartsOfRel(rel, blocks) ==
    IF rel.Type = "CHILD"
    THEN Concat([k \in 1..Len(rel.Ids) |-> PartsOfChild(IdMapGet(blocks, rel.Ids[k]))])
    ELSE <<>>

NonEmptyPart(t) == t # <<>>

_get_text_from_block(block, blocks) ==
    LET parts == Concat([k \in 1..Len(block.Relationships)
                            |-> PartsOfRel(block.Relationships[k], blocks)])
    IN  Strip(Join(SelectSeq(parts, NonEmptyPart)))

\* the ids of the VALUE relationships of a KEY block, in order
ValueIds(b) ==
    Concat([k \in 1..Len(b.Relationships) |->
                IF b.Relationships[k].Type = "VALUE"
                THEN b.Relationships[k].Ids ELSE <<>>])

\* value_txt = _get_text_from_block(vb, id_map) or value_txt, over the ids
RECURSIVE ValueTxt(_, _, _)
ValueTxt(ids, blocks, value_txt) ==
    IF ids = <<>> THEN value_txt
    ELSE LET t == _get_text_from_block(IdMapGet(blocks, Head(ids)), blocks)
         IN  ValueTxt(Tail(ids), blocks, IF t # <<>> THEN t ELSE value_txt)

IsKeyBlock(b) ==
    /\ b.BlockType = "KEY_VALUE_SET"
    /\ \E k \in 1..Len(b.EntityTypes) : b.EntityTypes[k] = "KEY"

KeyNorm(b, blocks) == Lower(Strip(_get_text_from_block(b, blocks)))

ValNorm(b, blocks) == Strip(ValueTxt(ValueIds(b), blocks, <<>>))

KvIndex(d, k) == {i \in 1..Len(d) : d[i].k = k}

\* a store that keeps the first value, empty or not
KvPutFirst(d, key_norm, val_norm) ==
    IF key_norm = <<>> THEN d
    ELSE IF KvIndex(d, key_norm) = {}
         THEN Append(d, [k |-> key_norm, v |-> val_norm])
         ELSE d

\* if key_norm: if key_norm not in kv or not kv[key_norm]: kv[key_norm] = val_norm
KvPut(d, key_norm, val_norm) ==
    IF key_norm = <<>> THEN d
    ELSE IF KvIndex(d, key_norm) = {}
         THEN Append(d, [k |-> key_norm, v |-> val_norm])
         ELSE LET i == CHOOSE i \in KvIndex(d, key_norm) : TRUE
              IN  IF d[i].v = <<>> THEN [d EXCEPT ![i].v = val_norm] ELSE d

\* for b in blocks: ...
RECURSIVE ParseBlocks(_, _, _)
ParseBlocks(d, blocks, n) ==
    IF n > Len(blocks) THEN d
    ELSE ParseBlocks(IF IsKeyBlock(blocks[n])
                     THEN KvPut(d, KeyNorm(blocks[n], blocks), ValNorm(blocks[n], blocks))
                     ELSE d,
                     blocks, n + 1)

\* for page in pages: ...
RECURSIVE ParsePages(_, _)
ParsePages(d, pages) ==
    IF pages = <<>> THEN d
    ELSE ParsePages(ParseBlocks(d, Head(pages), 1), Tail(pages))

parse_forms_key_values(pages) == ParsePages(<<>>, pages)

----------------------------------------------------------------------------
(* src/main.py: the forms fallback of process_local_pdf *)

K_inv_no == <<"i", "n", "v", " ", "n", "o">>

K_invoice_date == <<"i", "n", "v", "o", "i", "c", "e", " ", "d", "a", "t", "e">>

K_terms == <<"t", "e", "r", "m", "s">>

\* whether some regex of the list matches somewhere in the key k; the keys
\* of the model other than these three ("total") match none of the lists
RxSearch(patterns, k) ==
    CASE patterns = "RE_INV_NUM"  -> k = K_inv_no
      [] patterns = "RE_INV_DATE" -> k = K_invoice_date
      [] patterns = "RE_TERMS"    -> k = K_terms

_extract_from_kv(d, patterns) ==
    LET hits == {i \in 1..Len(d) : RxSearch(patterns, d[i].k)}
    IN  IF hits = {} THEN None
        ELSE d[CHOOSE i \in hits : \A j \in hits : i <= j].v

\* the date is looked up whatever primary holds
NeedDtAlways(p) == TRUE

need_inv(p) == ~Truthy(p.invoiceNumber) \/ is_currency_like(p.invoiceNumber)

need_dt(p) == ~Truthy(p.invoiceDate)

need_trm(p) == ~Truthy(p.paymentTerms)

FormsSucceeded(st) == st \in {"SUCCEEDED", "PARTIAL_SUCCESS"}

\* primary after the three patches from kv
Patched(p, d) ==
    LET inv_no    == _extract_from_kv(d, "RE_INV_NUM")
        inv_dt    == _extract_from_kv(d, "RE_INV_DATE")
        inv_terms == _extract_from_kv(d, "RE_TERMS")
        p1 == IF need_inv(p) /\ Truthy(inv_no) /\ ~is_currency_like(inv_no)
              THEN [p EXCEPT !.invoiceNumber = inv_no] ELSE p
        p2 == IF need_dt(p) /\ Truthy(inv_dt)
              THEN [p1 EXCEPT !.invoiceDate = inv_dt] ELSE p1
    IN  IF need_trm(p) /\ Truthy(inv_terms)
        THEN [p2 EXCEPT !.paymentTerms = inv_terms] ELSE p2

FallbackRuns(p, st) ==
    (need_inv(p) \/ need_dt(p) \/ need_trm(p)) /\ FormsSucceeded(st)

----------------------------------------------------------------------------
(* Inputs *)

MaxDocs == 3

Tag(c, i) == <<c, ToString(i)>>

Item(i, j) == [description |-> <<"i", ToString(i), ToString(j)>>,
               quantity |-> None, unitPrice |-> None, amount |-> None]

\* the page-level documents that may stand at position i of the batch
MergeDocAt(i) ==
    [invoiceNumber : {<<" ", "A">>, <<"B">>},
     invoiceDate   : {None, Tag("d", i)},
     total         : {None, Tag("t", i)},
     paymentTerms  : {<<>>, Tag("p", i)},
     lineItems     : {<<>>, <<Item(i, 1)>>}]

\* the page-level documents that may stand at position i of a batch whose
\* invoice numbers are blank or collide with the sentinel
GroupDocAt(i) ==
    [invoiceNumber : {None, <<>>, <<" ">>, <<"0">>, <<" ", "0">>, NO_ID},
     invoiceDate   : {None, Tag("d", i)},
     total         : {None},
     paymentTerms  : {<<>>},
     lineItems     : {<<>>}]

\* a line item none of whose values is truthy
EmptyItem == [description |-> <<>>, quantity |-> None,
              unitPrice |-> None, amount |-> None]

\* the merged invoices that may stand at position i of the list handed to
\* choose_primary_document
PrimaryDocAt(i) ==
    [invoiceNumber : {Tag("n", i)},
     invoiceDate   : {None},
     total         : {None, <<"n", "/", "a">>, <<"$", "2", "0", "0", ".", "0", "0">>},
     paymentTerms  : {None},
     lineItems     : {<<>>, <<EmptyItem>>, <<Item(i, 1)>>,
                      <<EmptyItem, Item(i, 1)>>, <<Item(i, 1), Item(i, 2)>>}]

Init ==
    /\ pc = "input"
    /\ docs = <<>>
    /\ docs_in = <<>>
    /\ group_sorted = <<>>
    /\ merged = <<>>
    /\ primary = None
    /\ primary_in = None
    /\ fpages = <<>>
    /\ fstatus = Absent
    /\ kv = <<>>
    /\ fields = <<>>
    /\ locals = None
    /\ row = None
    /\ items = <<>>
    /\ kept = <<>>
    /\ cleaned = <<>>
    /\ results_pages = <<>>
    /\ parsed = <<>>

\* parse_expense_documents appends one more page-level document
AddDoc(candidates) ==
    /\ pc = "input"
    /\ Len(docs) < MaxDocs
    /\ \E d \in candidates : docs' = Append(docs, d)
    /\ UNCHANGED <<pc, docs_in, group_sorted, merged, primary, primary_in,
                   fpages, fstatus, kv, fields, locals, row,
                   items, kept, cleaned, results_pages, parsed>>

AddMergeDoc == AddDoc(MergeDocAt(Len(docs) + 1))

AddGroupDoc == AddDoc(GroupDocAt(Len(docs) + 1))

\* merged_docs = merge_documents_by_invoice_number(initial_parsed)
Merge ==
    /\ pc = "input"
    /\ pc' = "merged"
    /\ docs_in' = docs
    /\ group_sorted' = (IF docs = <<>> THEN <<>> ELSE GroupsSorted(docs))
    /\ merged' = (IF docs = <<>> THEN <<>>
                  ELSE merge_documents_by_invoice_number(docs))
    /\ UNCHANGED <<docs, primary, primary_in, fpages, fstatus, kv, fields, locals, row,
                   items, kept, cleaned, results_pages, parsed>>

NextMerge == AddMergeDoc \/ Merge

SpecMerge == Init /\ [][NextMerge]_vars

AddPrimaryDoc == AddDoc(PrimaryDocAt(Len(docs) + 1))

\* primary = choose_primary_document(merged_docs)
ChoosePrimary ==
    /\ pc = "input"
    /\ pc' = "chosen"
    /\ docs_in' = docs
    /\ primary' = choose_primary_document(docs)
    /\ docs' = DocsAfterChoose(docs)
    /\ UNCHANGED <<group_sorted, merged, primary_in, fpages, fstatus, kv, fields, locals, row,
                   items, kept, cleaned, results_pages, parsed>>

NextPrimary == AddPrimaryDoc \/ ChoosePrimary

SpecPrimary == Init /\ [][NextPrimary]_vars

NextGroup == AddGroupDoc \/ Merge

MaxPages == 2

MaxEntries == 3

W_Inv == <<"I", "n", "v">>

W_INV == <<"I", "N", "V">>

W_No == <<"N", "o">>

W_NO == <<"N", "O">>

W_Invoice == <<"I", "n", "v", "o", "i", "c", "e">>

W_Date == <<"D", "a", "t", "e">>

W_Terms == <<"T", "e", "r", "m", "s">>

W_Total == <<"T", "o", "t", "a", "l">>

WordBlock(id, text) ==
    [Id |-> id, BlockType |-> "WORD", EntityTypes |-> <<>>,
     Relationships |-> <<>>, Text |-> text, SelectionStatus |-> Absent]

SelectionBlock(id, status) ==
    [Id |-> id, BlockType |-> "SELECTION_ELEMENT", EntityTypes |-> <<>>,
     Relationships |-> <<>>, Text |-> <<>>, SelectionStatus |-> status]

KeyValueBlock(id, entity, rels) ==
    [Id |-> id, BlockType |-> "KEY_VALUE_SET", EntityTypes |-> <<entity>>,
     Relationships |-> rels, Text |-> <<>>, SelectionStatus |-> Absent]

\* the child of a VALUE block: nothing, a word or a selection element
ValueChild(id, child) ==
    CASE child.kind = "none" -> <<>>
      [] child.kind = "word" -> <<WordBlock(id, child.text)>>
      [] child.kind = "selection" -> <<SelectionBlock(id, child.status)>>

\* the blocks of one form field: the KEY block, its words, the VALUE block
\* and its child, with ids above base
EntryBlocks(base, words, child) ==
    LET n  == Len(words)
        vc == ValueChild(base + n + 3, child)
    IN  <<KeyValueBlock(base + 1, "KEY",
                        <<[Type |-> "CHILD", Ids |-> [k \in 1..n |-> base + 1 + k]],
                          [Type |-> "VALUE", Ids |-> <<base + n + 2>>]>>)>>
        \o [k \in 1..n |-> WordBlock(base + 1 + k, words[k])]
        \o <<KeyValueBlock(base + n + 2, "VALUE",
                           IF vc = <<>> THEN <<>>
                           ELSE <<[Type |-> "CHILD", Ids |-> <<base + n + 3>>]>>)>>
        \o vc

RECURSIVE KeyCount(_)
KeyCount(pages) ==
    IF pages = <<>> THEN 0
    ELSE Len(SelectSeq(Head(pages), IsKeyBlock)) + KeyCount(Tail(pages))

FormsKeyWords == {<<W_Inv, W_No>>, <<W_INV, W_NO>>, <<W_Terms>>}

FormsValueChildren(n) ==
    {[kind |-> "none"], [kind |-> "word", text |-> Tag("v", n)],
     [kind |-> "selection", status |-> "SELECTED"],
     [kind |-> "selection", status |-> "NOT_SELECTED"]}

FallbackKeyWords == {<<W_Inv, W_No>>, <<W_Invoice, W_Date>>, <<W_Terms>>}

FallbackValueChildren(n) ==
    {[kind |-> "word", text |-> Tag("v", n)],
     [kind |-> "word", text |-> <<"$", "5">>]}

\* the forms analysis returns one more page
AddFormsPage ==
    /\ pc = "input"
    /\ Len(fpages) < MaxPages
    /\ fpages' = Append(fpages, <<>>)
    /\ UNCHANGED <<pc, docs, docs_in, group_sorted, merged, primary, primary_in,
                   fstatus, kv, fields, locals, row,
                   items, kept, cleaned, results_pages, parsed>>

\* the last page of the forms analysis holds one more form field
AddEntry(keywords, children) ==
    /\ pc = "input"
    /\ fpages # <<>>
    /\ KeyCount(fpages) < MaxEntries
    /\ \E words \in keywords, child \in children :
          fpages' = [fpages EXCEPT ![Len(fpages)] =
                        @ \o EntryBlocks(Len(@), words, child)]
    /\ UNCHANGED <<pc, docs, docs_in, group_sorted, merged, primary, primary_in,
                   fstatus, kv, fields, locals, row,
                   items, kept, cleaned, results_pages, parsed>>

AddFormsEntry == AddEntry(FormsKeyWords, FormsValueChildren(KeyCount(fpages) + 1))

AddFallbackEntry ==
    AddEntry(FallbackKeyWords, FallbackValueChildren(KeyCount(fpages) + 1))

\* kv = parse_forms_key_values(fpages)
ParseForms ==
    /\ pc = "input"
    /\ pc' = "parsed"
    /\ kv' = parse_forms_key_values(fpages)
    /\ UNCHANGED <<docs, docs_in, group_sorted, merged, primary, primary_in,
                   fpages, fstatus, fields, locals, row,
                   items, kept, cleaned, results_pages, parsed>>

NextForms == AddFormsPage \/ AddFormsEntry \/ ParseForms

SpecForms == Init /\ [][NextForms]_vars

\* the primary invoices the fallback may be given
FallbackPrimaries ==
    [invoiceNumber : {None, <<>>, <<"A", "7">>, <<"$", "9">>},
     invoiceDate   : {Tag("d", 0)},
     total         : {Tag("t", 0)},
     paymentTerms  : {<<>>},
     lineItems     : {<<Item(0, 1)>>}]
    \cup
    [invoiceNumber : {<<"A", "7">>, <<"$", "9">>},
     invoiceDate   : {None, Tag("d", 0)},
     total         : {Tag("t", 0)},
     paymentTerms  : {Tag("p", 0)},
     lineItems     : {<<Item(0, 1)>>}]

FormsStatuses == {"SUCCEEDED", "PARTIAL_SUCCESS", "FAILED"}

\* process_local_pdf, from need_inv to the last patch, for a primary that
\* choose_primary_document returned and a forms job that ended with st
Fallback ==
    /\ pc = "input"
    /\ pc' = "patched"
    /\ \E p \in FallbackPrimaries, st \in FormsStatuses :
          LET need == need_inv(p) \/ need_dt(p) \/ need_trm(p)
              d    == IF need /\ FormsSucceeded(st)
                      THEN parse_forms_key_values(fpages) ELSE <<>>
          IN  /\ primary_in' = p
              /\ fstatus' = (IF need THEN st ELSE Absent)
              /\ kv' = d
              /\ primary' = (IF need /\ FormsSucceeded(st) THEN Patched(p, d) ELSE p)
    /\ UNCHANGED <<docs, docs_in, group_sorted, merged, fpages, fields, locals, row,
                   items, kept, cleaned, results_pages, parsed>>

NextFallback == AddFormsPage \/ AddFallbackEntry \/ Fallback

SpecFallback == Init /\ [][NextFallback]_vars

SpecGroup == Init /\ [][NextGroup]_vars

----------------------------------------------------------------------------
(* src/expense_parser.py: the line-item resolver, li_extract *)

\* Decimal comparison and arithmetic; a negative value has a negative u
DecLt(a, b) == a.u < b.u \/ (a.u = b.u /\ a.f < b.f)

DecLe(a, b) == ~DecLt(b, a)

DecSub(a, b) == DecNorm(a.u - b.u, a.f - b.f)

\* Decimal.copy_abs
DecAbs(a) == IF a.u < 0 THEN DecNorm(-a.u, -a.f) ELSE a

\* q * d, exact when q and d have at most three fractional digits
DecMul(q, d) ==
    LET qm == q.f \div 1000
        uh == d.u \div 1000
        ul == d.u % 1000
    IN  DecNorm((q.u * d.u) + (qm * uh),
                (qm * ul * 1000) + (q.u * d.f) + (qm * (d.f \div 1000)))

\* d.quantize(Decimal("0.01")) of a d >= 0: the context's rounding is the
\* default, ROUND_HALF_EVEN
quantize(d) ==
    LET cents == d.f \div 10000
        rem   == d.f % 10000
        up    == rem > 5000 \/ (rem = 5000 /\ cents % 2 = 1)
    IN  DecNorm(d.u, (IF up THEN cents + 1 ELSE cents) * 10000)

\* (ad / qd).quantize(Decimal("0.01")), qd > 0 of at most three fractional
\* digits, ad >= 0
DivQuantize(ad, qd) ==
    LET qm    == (qd.u * 1000) + (qd.f \div 1000)
        n     == ((ad.u % qm) * 100000) + (ad.f \div 10)
        cents == n \div qm
        rem   == n % qm
        up    == 2 * rem > qm \/ (2 * rem = qm /\ cents % 2 = 1)
    IN  DecNorm((ad.u \div qm) * 1000, (IF up THEN cents + 1 ELSE cents) * 10000)

RECURSIVE NatStr(_)
NatStr(n) ==
    IF n < 10 THEN <<Digits[n + 1]>>
    ELSE NatStr(n \div 10) \o <<Digits[(n % 10) + 1]>>

\* f"{d}" of a Decimal quantized to 0.01
Fmt(d) ==
    NatStr(d.u) \o <<".", Digits[(d.f \div 100000) + 1],
                     Digits[((d.f \div 10000) % 10) + 1]>>

IsLetter(c) == \E i \in 1..26 : c = LowerCase[i] \/ c = UpperCase[i]

NotUnitWord(c) == ~IsLetter(c) /\ c \notin Whitespace

\* to_decimal_qty: to_decimal_maybe, tolerant of unit words as well
to_decimal_qty(s) ==
    IF s = None THEN NoneDec
    ELSE to_decimal_maybe(SelectSeq(s, NotUnitWord))

\* compute_amount_if_missing: quantity * rate rounded to the cent when both
\* parse, else None
compute_amount_if_missing(qty_raw, rate) ==
    LET qd == to_decimal_qty(qty_raw)
        rd == to_decimal_maybe(rate)
    IN  IF qd = NoneDec \/ rd = NoneDec THEN NoneDec
        ELSE quantize(DecMul(qd, rd))

_close(a, b) ==
    /\ a # NoneDec
    /\ b # NoneDec
    /\ LET ab  == DecAbs(b)
           pct == DecNorm(ab.u \div 50, ((ab.u % 50) * 20000) + (ab.f \div 50))
           tol == IF DecLt(pct, Dec(0, 50000)) THEN Dec(0, 50000) ELSE pct
       IN  DecLe(DecAbs(DecSub(a, b)), tol)

InSeq(x, lst) == \E k \in 1..Len(lst) : lst[k] = x

_push_unique(lst, v) ==
    IF ~Truthy(v) THEN lst
    ELSE LET v2 == Strip(v)
         IN  IF v2 # <<>> /\ ~InSeq(v2, lst) THEN Append(lst, v2) ELSE lst

\* the bonuses, in millionths
_soft_amount_bonus(s) ==
    LET d == to_decimal_maybe(s)
    IN  (IF is_currency_like(s) THEN -50000 ELSE 0)
        + (IF d # NoneDec /\ d.f % 10000 = 0 THEN -10000 ELSE 0)

_soft_rate_bonus(s) == IF is_currency_like(s) THEN 30000 ELSE 0

UpperChar(c) ==
    IF \E i \in 1..26 : LowerCase[i] = c
    THEN UpperCase[CHOOSE i \in 1..26 : LowerCase[i] = c]
    ELSE c

Upper(s) == [k \in 1..Len(s) |-> UpperChar(s[k])]

QUANTITY_KEYS ==
    {<<"Q", "U", "A", "N", "T", "I", "T", "Y">>,
     <<"Q", "T", "Y">>,
     <<"H", "O", "U", "R", "S">>,
     <<"H", "O", "U", "R">>,
     <<"U", "N", "I", "T", "S">>}

UNIT_PRICE_KEYS ==
    {<<"U", "N", "I", "T", "_", "P", "R", "I", "C", "E">>,
     <<"P", "R", "I", "C", "E">>,
     <<"R", "A", "T", "E">>}

AMOUNT_KEYS ==
    {<<"A", "M", "O", "U", "N", "T">>,
     <<"T", "O", "T", "A", "L">>,
     <<"L", "I", "N", "E", "_", "T", "O", "T", "A", "L">>,
     <<"N", "E", "T", "_", "A", "M", "O", "U", "N", "T">>,
     <<"L", "I", "N", "E", "_", "A", "M", "O", "U", "N", "T">>,
     <<"A", "M", "O", "U", "N", "T", "_", "A", "F", "T", "E", "R", "_", "D", "I", "S", "C", "O", "U", "N", "T">>}

DESC_KEYS ==
    {<<"I", "T", "E", "M">>,
     <<"D", "E", "S", "C", "R", "I", "P", "T", "I", "O", "N">>,
     <<"P", "R", "O", "D", "U", "C", "T", "_", "C", "O", "D", "E">>,
     <<"S", "E", "R", "V", "I", "C", "E">>}

L_rate == <<"r", "a", "t", "e">>

L_amount == <<"a", "m", "o", "u", "n", "t">>

L_qty == <<"q", "t", "y">>

\* rx.search(lbl_norm) for the label patterns of parse_expense_documents,
\* over the normalized labels the fields of the model carry
RxLabel(rx, lbl_norm) ==
    CASE rx = "RATE_LABEL_RE"   -> lbl_norm = L_rate
      [] rx = "AMOUNT_LABEL_RE" -> lbl_norm = L_amount
      [] rx = "QTY_LABEL_RE"    -> lbl_norm = L_qty
      [] rx = "DESC_LABEL_RE"   -> FALSE

\* ((f.get("Type") or {}).get("Text") or "").upper()
FieldType(f) == Upper(OrEmpty(f.Type))

\* ((f.get("LabelDetection") or {}).get("Text") or "").strip()
FieldLabel(f) == Strip(OrEmpty(f.Label))

\* (f.get("ValueDetection") or {}).get("Text") or ""
FieldVal(f) == OrEmpty(f.Value)

\* the body of the TYPE-first loop, on the locals c
TypeStep(c, f) ==
    LET t        == FieldType(f)
        lbl_norm == Lower(FieldLabel(f))
        val      == FieldVal(f)
        c1 == IF ~Truthy(c.desc)
                 /\ (t \in DESC_KEYS \/ RxLabel("DESC_LABEL_RE", lbl_norm))
              THEN [c EXCEPT !.desc = Strip(val)] ELSE c
        c2 == IF (t \in QUANTITY_KEYS \/ RxLabel("QTY_LABEL_RE", lbl_norm))
                 /\ ~Truthy(c1.qty_raw)
              THEN [c1 EXCEPT !.qty_raw = val] ELSE c1
        c3 == IF t \in UNIT_PRICE_KEYS
              THEN [c2 EXCEPT !.rate_cands = _push_unique(@, val)] ELSE c2
    IN  IF t \in AMOUNT_KEYS
        THEN [c3 EXCEPT !.amt_cands = _push_unique(@, val)] ELSE c3

RECURSIVE TypePass(_, _)
TypePass(c, fs) ==
    IF fs = <<>> THEN c ELSE TypePass(TypeStep(c, Head(fs)), Tail(fs))

\* the body of the LABEL-based loop
LabelStep(c, f) ==
    LET lbl == Lower(FieldLabel(f))
        val == FieldVal(f)
        c1  == IF RxLabel("RATE_LABEL_RE", lbl)
               THEN [c EXCEPT !.rate_cands = _push_unique(@, val)] ELSE c
    IN  IF RxLabel("AMOUNT_LABEL_RE", lbl)
        THEN [c1 EXCEPT !.amt_cands = _push_unique(@, val)] ELSE c1

RECURSIVE LabelPass(_, _)
LabelPass(c, fs) ==
    IF fs = <<>> THEN c ELSE LabelPass(LabelStep(c, Head(fs)), Tail(fs))

\* the amount candidates without those that echo the invoice total
\* the echo filter without "or amt_cands"
EchoFilterOnly(amt_cands, total_hint_num) ==
    IF total_hint_num # NoneDec /\ amt_cands # <<>>
    THEN LET keep(a) == \/ to_decimal_maybe(a) = NoneDec
                        \/ ~_close(to_decimal_maybe(a), total_hint_num)
         IN  SelectSeq(amt_cands, keep)
    ELSE amt_cands

EchoFilter(amt_cands, total_hint_num) ==
    IF total_hint_num # NoneDec /\ amt_cands # <<>>
    THEN LET keep(a) == \/ to_decimal_maybe(a) = NoneDec
                        \/ ~_close(to_decimal_maybe(a), total_hint_num)
             filtered == SelectSeq(amt_cands, keep)
         IN  IF filtered # <<>> THEN filtered ELSE amt_cands
    ELSE amt_cands

\* best_pair before the search: (None, None, Decimal("1e9"))
BestInit == [r |-> None, a |-> None, err |-> Dec(1000000000, 0)]

\* err of the pair (r, a), both of which parse
PairErr(qd, r, a) ==
    LET rd       == to_decimal_maybe(r)
        ad       == to_decimal_maybe(a)
        expected == quantize(DecMul(qd, rd))
        err      == DecAbs(DecSub(expected, ad))
    IN  DecNorm(err.u,
                err.f + _soft_rate_bonus(r) + _soft_amount_bonus(a)
                + (IF DecLe(Dec(1, 0), qd) /\ DecLt(ad, rd) THEN 100000 ELSE 0))

\* the search from its k-th pair on, rate candidates outer, amount
\* candidates inner
RECURSIVE BestPair(_, _, _, _, _)
BestPair(best, qd, rate_cands, amt_cands, k) ==
    IF k > Len(rate_cands) * Len(amt_cands) THEN best
    ELSE LET r  == rate_cands[((k - 1) \div Len(amt_cands)) + 1]
             a  == amt_cands[((k - 1) % Len(amt_cands)) + 1]
             nb == IF to_decimal_maybe(r) = NoneDec \/ to_decimal_maybe(a) = NoneDec
                   THEN best
                   ELSE IF DecLt(PairErr(qd, r, a), best.err)
                        THEN [r |-> r, a |-> a, err |-> PairErr(qd, r, a)]
                        ELSE best
         IN  BestPair(nb, qd, rate_cands, amt_cands, k + 1)

\* the swap test without the rounding of the two products
SwappedUnrounded(qd2, rd2, ad2) ==
    /\ qd2 # NoneDec /\ rd2 # NoneDec /\ ad2 # NoneDec
    /\ ~_close(DecMul(qd2, rd2), ad2)
    /\ _close(DecMul(qd2, ad2), rd2)

\* whether rate and amount are exchanged before the return
Swapped(qd2, rd2, ad2) ==
    /\ qd2 # NoneDec /\ rd2 # NoneDec /\ ad2 # NoneDec
    /\ ~_close(quantize(DecMul(qd2, rd2)), ad2)
    /\ _close(quantize(DecMul(qd2, ad2)), rd2)

\* the locals after the two collection loops c and the echoed-total filter
Collected(c, total_hint_num) ==
    [desc |-> c.desc, qty_raw |-> c.qty_raw, total_hint_num |-> total_hint_num,
     rate_cands |-> c.rate_cands,
     amt_cands0 |-> c.amt_cands,
     amt_cands |-> EchoFilter(c.amt_cands, total_hint_num)]

\* ... with best_pair, after the pair search
Searched(l) ==
    l @@ [best_pair |->
             IF /\ to_decimal_qty(l.qty_raw) # NoneDec
                /\ l.rate_cands # <<>>
                /\ l.amt_cands # <<>>
             THEN BestPair(BestInit, to_decimal_qty(l.qty_raw),
                           l.rate_cands, l.amt_cands, 1)
             ELSE BestInit]

\* ... with chosen, the (rate, amount) after the pair search and the
\* first-candidate fallback
Chosen(l) ==
    l @@ [chosen |->
             <<IF l.best_pair.r # None THEN l.best_pair.r
               ELSE IF l.rate_cands # <<>> THEN l.rate_cands[1] ELSE None,
               IF l.best_pair.r # None THEN l.best_pair.a
               ELSE IF l.amt_cands # <<>> THEN l.amt_cands[1] ELSE None>>]

\* amount after "if amount is None"
FilledAmount(qty_raw, rate, amount) ==
    IF amount = None /\ compute_amount_if_missing(qty_raw, rate) # NoneDec
    THEN Fmt(compute_amount_if_missing(qty_raw, rate))
    ELSE amount

\* the rate gap without "qd != 0": the division by a zero quantity raises
\* decimal.DivisionByZero
FilledRateUnguarded(qty_raw, rate, amount) ==
    IF /\ rate = None
       /\ to_decimal_qty(qty_raw) # NoneDec
       /\ Truthy(amount)
       /\ to_decimal_maybe(amount) # NoneDec
    THEN IF to_decimal_qty(qty_raw) = Dec(0, 0)
         THEN <<"D", "i", "v", "i", "s", "i", "o", "n", "B", "y", "Z", "e", "r", "o">>
         ELSE Fmt(DivQuantize(to_decimal_maybe(amount), to_decimal_qty(qty_raw)))
    ELSE rate

\* rate after "if rate is None and qd is not None and amount"
FilledRate(qty_raw, rate, amount) ==
    IF /\ rate = None
       /\ to_decimal_qty(qty_raw) # NoneDec
       /\ Truthy(amount)
       /\ to_decimal_maybe(amount) # NoneDec
       /\ to_decimal_qty(qty_raw) # Dec(0, 0)
    THEN Fmt(DivQuantize(to_decimal_maybe(amount), to_decimal_qty(qty_raw)))
    ELSE rate

\* ... with filled, the (rate, amount) after the gaps are computed
GapsFilled(l) ==
    l @@ [filled |->
             <<FilledRate(l.qty_raw, l.chosen[1],
                          FilledAmount(l.qty_raw, l.chosen[1], l.chosen[2])),
               FilledAmount(l.qty_raw, l.chosen[1], l.chosen[2])>>]

\* ... with rate and amount as they are returned
Returned(l) ==
    LET swapped == Swapped(to_decimal_qty(l.qty_raw), to_decimal_maybe(l.filled[1]),
                           to_decimal_maybe(l.filled[2]))
    IN  l @@ [swapped |-> swapped,
              rate    |-> IF swapped THEN l.filled[2] ELSE l.filled[1],
              amount  |-> IF swapped THEN l.filled[1] ELSE l.filled[2]]

\* the local variables of li_extract when it returns
LiLocals(fs, total_hint_num) ==
    Returned(GapsFilled(Chosen(Searched(Collected(
        LabelPass(TypePass([desc |-> None, qty_raw |-> None,
                            rate_cands |-> <<>>, amt_cands |-> <<>>], fs), fs),
        total_hint_num)))))

\* the dict li_extract returns, from its locals
RowOf(l) ==
    [description |-> l.desc, quantity |-> l.qty_raw,
     unitPrice |-> l.rate, amount |-> l.amount]

li_extract(fs, total_hint_num) == RowOf(LiLocals(fs, total_hint_num))

\* inputs of li_extract

MaxFields == 5

T_QUANTITY == <<"Q", "U", "A", "N", "T", "I", "T", "Y">>

T_UNIT_PRICE == <<"U", "N", "I", "T", "_", "P", "R", "I", "C", "E">>

T_Rate == <<"R", "a", "t", "e">>

T_AMOUNT == <<"A", "M", "O", "U", "N", "T">>

T_ITEM == <<"I", "T", "E", "M">>

T_OTHER == <<"O", "T", "H", "E", "R">>

\* a field with a Type and no LabelDetection
TypeField(type, value) == [Type |-> type, Label |-> None, Value |-> value]

\* a field whose Type says nothing, with a LabelDetection
LabelField(label, value) == [Type |-> T_OTHER, Label |-> label, Value |-> value]

QtyTexts ==
    {<<"2">>,
     <<"0", ".", "5">>,
     <<"0">>,
     <<"n", "/", "a">>}

RateTexts ==
    {<<"5", "0", ".", "0", "0">>,
     <<"5", "0", ".", "0", "5">>,
     <<"$", "5", "0", ".", "0", "0">>,
     <<"n", "/", "a">>}

AmountTexts ==
    {<<"1", "0", "0", ".", "0", "0">>,
     <<"5", "0", ".", "0", "0">>,
     <<"5", "1", ".", "0", "0", "2">>,
     <<"1", "0", "0", "0", "0", "0", "0", "3", "0", "0", ".", "0", "0">>,
     <<"n", "/", "a">>}

\* the fields that may stand at position i of a line item: a quantity or a
\* description first, then two rate columns, then amount columns
FieldAt(i) ==
    IF i = 1
    THEN {TypeField(T_QUANTITY, v) : v \in QtyTexts}
         \cup {LabelField(<<"Q", "t", "y">>, <<"2", " ", "h", "r", "s">>), TypeField(T_ITEM, <<"F", "e", "e">>)}
    ELSE IF i <= 3
    THEN {TypeField(T_UNIT_PRICE, v) : v \in RateTexts}
         \cup {TypeField(T_Rate, <<"1", "0", "0", ".", "0", "0">>), LabelField(<<"R", "a", "t", "e">>, <<" ", "5", "0", ".", "0", " ">>),
               TypeField(T_OTHER, None)}
    ELSE {TypeField(T_AMOUNT, v) : v \in AmountTexts}
         \cup {LabelField(<<"A", "m", "o", "u", "n", "t">>, <<"1", "0", "0", ".", "0", "0">>)}

\* the total hints of the enclosing document
TotalHints == {NoneDec, Dec(100, 0)}

\* the line item holds one more field
AddField ==
    /\ pc = "input"
    /\ Len(fields) < MaxFields
    /\ \E f \in FieldAt(Len(fields) + 1) : fields' = Append(fields, f)
    /\ UNCHANGED <<pc, docs, docs_in, group_sorted, merged, primary, primary_in,
                   fpages, fstatus, kv, locals, row,
                   items, kept, cleaned, results_pages, parsed>>

\* li_extract(fields, total_hint_num)
LiExtract ==
    /\ pc = "input"
    /\ pc' = "extracted"
    /\ \E h \in TotalHints :
          /\ locals' = LiLocals(fields, h)
          /\ row' = li_extract(fields, h)
    /\ UNCHANGED <<docs, docs_in, group_sorted, merged, primary, primary_in,
                   fpages, fstatus, kv, fields,
                   items, kept, cleaned, results_pages, parsed>>

NextLi == AddField \/ LiExtract

SpecLi == Init /\ [][NextLi]_vars

----------------------------------------------------------------------------
(* src/expense_parser.py: the line-item sanitizer, sanitize_line_items *)

RECURSIVE Collapse(_)
Collapse(s) ==
    IF Len(s) < 2 THEN s
    ELSE IF s[1] \in Whitespace /\ s[2] \in Whitespace THEN Collapse(Tail(s))
    ELSE <<s[1]>> \o Collapse(Tail(s))

\* clean_text: trimmed, runs of whitespace collapsed; None stays None
clean_text(s) == IF s = None THEN None ELSE Collapse(Strip(s))

D_Fee == <<"F", "e", "e", " ", "x">>

D_Total == <<"T", "o", "t", "a", "l">>

D_Total_fee == <<"T", "o", "t", "a", "l", " ", "f", "e", "e">>

\* SUMMARY_RX.search(desc), over the cleaned descriptions the rows of the
\* model carry
SummaryRxSearch(desc) ==
    CASE desc = D_Total     -> TRUE
      [] desc = D_Total_fee -> FALSE
      [] desc = D_Fee       -> FALSE
      [] OTHER              -> FALSE

\* n / d rounded to an integer, ROUND_HALF_EVEN; n >= 0, d > 0
DivHalfEven(n, d) ==
    IF 2 * (n % d) > d \/ (2 * (n % d) = d /\ (n \div d) % 2 = 1)
    THEN (n \div d) + 1
    ELSE n \div d

\* a Decimal of at most three fractional digits, in thousandths
Milli(d) == (d.u * 1000) + (d.f \div 1000)

\* qd2 in thousandths: (amt_d / price_d).quantize(Decimal("0.001"))
QuotientMilli(amt_d, price_d) == DivHalfEven(Milli(amt_d) * 1000, Milli(price_d))

\* qd2 given in thousandths t, replaced by qd2.to_integral_value() when it
\* is within 0.001 of it
Snapped(t) ==
    IF (t - (DivHalfEven(t, 1000) * 1000)) \in {-1, 0, 1}
    THEN Dec(DivHalfEven(t, 1000), 0)
    ELSE Dec(t \div 1000, (t % 1000) * 1000)

\* amt_d computed from quantity and price whether or not one was supplied
SanAmountComputed(qty, price, amt) == compute_amount_if_missing(qty, price)

\* amt_d after "if amt_d is None"
SanAmount(qty, price, amt) ==
    IF to_decimal_maybe(amt) = NoneDec
    THEN compute_amount_if_missing(qty, price)
    ELSE to_decimal_maybe(amt)

\* "not price_d": a Decimal that is None or zero
NotPrice(price_d) == price_d = NoneDec \/ price_d = Dec(0, 0)

\* qty_d after the zero-quantity correction
SanQtyZero(qty_d, price_d, amt_d) ==
    IF /\ qty_d # NoneDec
       /\ qty_d = Dec(0, 0)
       /\ amt_d # NoneDec /\ amt_d # Dec(0, 0)
       /\ NotPrice(price_d)
    THEN NoneDec
    ELSE qty_d

\* qty_d after the inference from amount and unit price
SanQtyInfer(qty_d, price_d, amt_d) ==
    IF /\ qty_d = NoneDec
       /\ amt_d # NoneDec
       /\ price_d # NoneDec /\ price_d # Dec(0, 0)
    THEN Snapped(QuotientMilli(amt_d, price_d))
    ELSE qty_d

\* the dict appended for a row of cleaned texts
SanRow(desc, qty, price, amt) ==
    [description |-> desc,
     quantity    |-> SanQtyInfer(SanQtyZero(to_decimal_qty(qty), to_decimal_maybe(price),
                                            SanAmount(qty, price, amt)),
                                 to_decimal_maybe(price), SanAmount(qty, price, amt)),
     unitPrice   |-> to_decimal_maybe(price),
     amount      |-> SanAmount(qty, price, amt)]

\* the dict the loop body builds for the row it
SanItem(it) ==
    SanRow(clean_text(it.description), clean_text(it.quantity),
           clean_text(it.unitPrice), clean_text(it.amount))

\* the row is a summary or heading row
IsSummaryRow(it) ==
    /\ Truthy(clean_text(it.description))
    /\ SummaryRxSearch(clean_text(it.description))

\* the dict r holds nothing
IsEmptyRow(r) ==
    ~(\/ Truthy(r.description)
      \/ r.quantity # NoneDec
      \/ r.unitPrice # NoneDec
      \/ r.amount # NoneDec)

\* the positions of its whose row is appended
KeptOf(its) ==
    SelectSeq([i \in 1..Len(its) |-> i],
              LAMBDA i : ~IsSummaryRow(its[i]) /\ ~IsEmptyRow(SanItem(its[i])))

\* its is a list; "items or []" is its itself
sanitize_line_items(its) ==
    [k \in 1..Len(KeptOf(its)) |-> SanItem(its[KeptOf(its)[k]])]

\* inputs of sanitize_line_items

MaxItems == 2

\* the rows li_extract may have returned
SanItems ==
    [description : {None, D_Total, <<" ", "F", "e", "e", " ", " ", "x", " ">>},
     quantity    : {None, <<"0">>, <<"2">>},
     unitPrice   : {None, <<"0">>, <<"5", "0", ".", "0", "0">>},
     amount      : {None, <<" ", "1", "5", "0", ".", "0", "0">>, <<"0", ".", "0", "0">>}]

\* the rows that may follow the first one
SanItemsLater ==
    [description : {D_Total, <<" ", "F", "e", "e", " ", " ", "x", " ">>},
     quantity    : {None, <<"0">>},
     unitPrice   : {None, <<"5", "0", ".", "0", "0">>},
     amount      : {None, <<" ", "1", "5", "0", ".", "0", "0">>}]

SanItemAt(i) == IF i = 1 THEN SanItems ELSE SanItemsLater

\* the list holds one more row
AddItem ==
    /\ pc = "input"
    /\ Len(items) < MaxItems
    /\ \E it \in SanItemAt(Len(items) + 1) : items' = Append(items, it)
    /\ UNCHANGED <<pc, docs, docs_in, group_sorted, merged, primary, primary_in,
                   fpages, fstatus, kv, fields, locals, row, kept, cleaned,
                   results_pages, parsed>>

\* cleaned = sanitize_line_items(items)
Sanitize ==
    /\ pc = "input"
    /\ pc' = "sanitized"
    /\ kept' = KeptOf(items)
    /\ cleaned' = sanitize_line_items(items)
    /\ UNCHANGED <<docs, docs_in, group_sorted, merged, primary, primary_in,
                   fpages, fstatus, kv, fields, locals, row, items,
                   results_pages, parsed>>

NextSanitize == AddItem \/ Sanitize

SpecSanitize == Init /\ [][NextSanitize]_vars

----------------------------------------------------------------------------
(* src/expense_parser.py: parse_expense_documents, the loop over the pages *)
(*                                                                         *)
(* A page is the list of its ExpenseDocuments; a document is               *)
(* [SummaryFields, LineItemGroups], a group the list of its LineItems, a   *)
(* line item the list of its LineItemExpenseFields.                        *)

S_INVOICE_RECEIPT_ID == <<"I", "N", "V", "O", "I", "C", "E", "_", "R", "E", "C", "E", "I", "P", "T", "_", "I", "D">>

S_INVOICE_NUMBER == <<"I", "N", "V", "O", "I", "C", "E", "_", "N", "U", "M", "B", "E", "R">>

S_INVOICE_RECEIPT_DATE == <<"I", "N", "V", "O", "I", "C", "E", "_", "R", "E", "C", "E", "I", "P", "T", "_", "D", "A", "T", "E">>

S_INVOICE_DATE == <<"I", "N", "V", "O", "I", "C", "E", "_", "D", "A", "T", "E">>

S_TOTAL == <<"T", "O", "T", "A", "L">>

S_GRAND_TOTAL == <<"G", "R", "A", "N", "D", "_", "T", "O", "T", "A", "L">>

S_PAYMENT_TERMS == <<"P", "A", "Y", "M", "E", "N", "T", "_", "T", "E", "R", "M", "S">>

S_TERMS == <<"T", "E", "R", "M", "S">>

L_total == <<"t", "o", "t", "a", "l">>

\* whether some regex of the list matches somewhere in lbl_norm; the labels
\* of the model other than these match none of the lists
LabelRxSearch(label_regexes, lbl_norm) ==
    CASE label_regexes = "RE_INV_NUM"  -> lbl_norm = K_inv_no
      [] label_regexes = "RE_INV_DATE" -> lbl_norm = K_invoice_date
      [] label_regexes = "RE_TOTAL"    -> lbl_norm = L_total
      [] label_regexes = "RE_TERMS"    -> lbl_norm = K_terms

RECURSIVE get_summary_value_by_type(_, _)
get_summary_value_by_type(summary_fields, type_name) ==
    IF summary_fields = <<>> THEN None
    ELSE IF Head(summary_fields).Type = type_name /\ Truthy(Head(summary_fields).Value)
         THEN Head(summary_fields).Value
         ELSE get_summary_value_by_type(Tail(summary_fields), type_name)

RECURSIVE get_summary_value_by_label(_, _)
get_summary_value_by_label(summary_fields, label_regexes) ==
    IF summary_fields = <<>> THEN None
    ELSE IF /\ FieldLabel(Head(summary_fields)) # <<>>
            /\ Truthy(Head(summary_fields).Value)
            /\ LabelRxSearch(label_regexes, Lower(FieldLabel(Head(summary_fields))))
         THEN Head(summary_fields).Value
         ELSE get_summary_value_by_label(Tail(summary_fields), label_regexes)

RECURSIVE sumval(_, _)
sumval(summary_fields, alts) ==
    IF alts = <<>> THEN None
    ELSE IF Truthy(get_summary_value_by_type(summary_fields, Head(alts)))
         THEN get_summary_value_by_type(summary_fields, Head(alts))
         ELSE sumval(summary_fields, Tail(alts))

\* sumval(*alts) or get_summary_value_by_label(summary_fields, label_regexes)
SummaryValue(summary_fields, alts, label_regexes) ==
    IF Truthy(sumval(summary_fields, alts)) THEN sumval(summary_fields, alts)
    ELSE get_summary_value_by_label(summary_fields, label_regexes)

\* items, after the loops over the groups and their line items
ExtractedItems(line_item_groups, total_hint_num) ==
    [k \in 1..Len(Concat(line_item_groups)) |->
        li_extract(Concat(line_item_groups)[k], total_hint_num)]

\* the dict appended for a document whose total is total_amt
ParsedDoc(summary_fields, line_item_groups, total_amt) ==
    [invoiceNumber |-> SummaryValue(summary_fields,
                                    <<S_INVOICE_RECEIPT_ID, S_INVOICE_NUMBER>>, "RE_INV_NUM"),
     invoiceDate   |-> SummaryValue(summary_fields,
                                    <<S_INVOICE_RECEIPT_DATE, S_INVOICE_DATE>>, "RE_INV_DATE"),
     total         |-> total_amt,
     paymentTerms  |-> SummaryValue(summary_fields,
                                    <<S_PAYMENT_TERMS, S_TERMS>>, "RE_TERMS"),
     lineItems     |-> ExtractedItems(line_item_groups, to_decimal_maybe(total_amt))]

ParseDoc(doc) ==
    ParsedDoc(doc.SummaryFields, doc.LineItemGroups,
              SummaryValue(doc.SummaryFields, <<S_TOTAL, S_GRAND_TOTAL>>, "RE_TOTAL"))

parse_expense_documents(pages) ==
    [k \in 1..Len(Concat(pages)) |-> ParseDoc(Concat(pages)[k])]

\* inputs of the core operations: zero quantities and prices, fields that
\* say nothing, lists without elements

MaxCoreFields == 3

MaxResultPages == 2

CoreFieldAt(i) ==
    IF i = 1 THEN {TypeField(T_QUANTITY, <<"0">>), TypeField(T_QUANTITY, <<"2">>),
                   TypeField(T_OTHER, None)}
    ELSE IF i = 2 THEN {TypeField(T_UNIT_PRICE, <<"0">>),
                        TypeField(T_UNIT_PRICE, <<"5", "0", ".", "0", "0">>),
                        TypeField(T_OTHER, None)}
    ELSE {TypeField(T_AMOUNT, <<"1", "0", "0", ".", "0", "0">>),
          TypeField(T_AMOUNT, <<"0", ".", "0", "0">>),
          TypeField(T_OTHER, None)}

CoreSummaries ==
    {<<>>,
     <<TypeField(S_TOTAL, <<"1", "0", "0", ".", "0", "0">>)>>,
     <<TypeField(S_TOTAL, None),
       LabelField(<<" ", "T", "o", "t", "a", "l">>, <<"1", "0", "0", ".", "0", "0">>)>>,
     <<TypeField(S_INVOICE_NUMBER, <<"A">>)>>}

CoreLineItems ==
    {<<>>,
     <<TypeField(T_QUANTITY, <<"0">>), TypeField(T_AMOUNT, <<"1", "0", "0", ".", "0", "0">>)>>,
     <<TypeField(T_UNIT_PRICE, <<"0">>), TypeField(T_AMOUNT, <<"5", "0", ".", "0", "0">>)>>}

CoreDocs ==
    [SummaryFields  : CoreSummaries,
     LineItemGroups : {<<>>, << <<>> >>} \cup {<< <<li>> >> : li \in CoreLineItems}]

CorePages == {<<>>} \cup {<<d>> : d \in CoreDocs}

\* the line item holds one more field
AddCoreField ==
    /\ pc = "input"
    /\ items = <<>>
    /\ results_pages = <<>>
    /\ Len(fields) < MaxCoreFields
    /\ \E f \in CoreFieldAt(Len(fields) + 1) : fields' = Append(fields, f)
    /\ UNCHANGED <<pc, docs, docs_in, group_sorted, merged, primary, primary_in,
                   fpages, fstatus, kv, locals, row,
                   items, kept, cleaned, results_pages, parsed>>

\* one more page of results
AddPage ==
    /\ pc = "input"
    /\ fields = <<>>
    /\ items = <<>>
    /\ Len(results_pages) < MaxResultPages
    /\ \E p \in CorePages : results_pages' = Append(results_pages, p)
    /\ UNCHANGED <<pc, docs, docs_in, group_sorted, merged, primary, primary_in,
                   fpages, fstatus, kv, fields, locals, row, items, kept, cleaned,
                   parsed>>

\* initial_parsed = parse_expense_documents(pages)
Parse ==
    /\ pc = "input"
    /\ pc' = "parsed"
    /\ parsed' = parse_expense_documents(results_pages)
    /\ UNCHANGED <<docs, docs_in, group_sorted, merged, primary, primary_in,
                   fpages, fstatus, kv, fields, locals, row, items, kept, cleaned,
                   results_pages>>

\* merged_docs = merge_documents_by_invoice_number(initial_parsed)
MergeParsed ==
    /\ pc = "parsed"
    /\ pc' = "merged"
    /\ docs_in' = parsed
    /\ group_sorted' = (IF parsed = <<>> THEN <<>> ELSE GroupsSorted(parsed))
    /\ merged' = (IF parsed = <<>> THEN <<>>
                  ELSE merge_documents_by_invoice_number(parsed))
    /\ UNCHANGED <<docs, primary, primary_in, fpages, fstatus, kv, fields, locals, row,
                   items, kept, cleaned, results_pages, parsed>>

\* one core operation on one input
NextCore ==
    \/ AddCoreField
    \/ (fields = <<>> /\ results_pages = <<>> /\ AddItem)
    \/ AddPage
    \/ (items = <<>> /\ results_pages = <<>> /\ LiExtract)
    \/ (fields = <<>> /\ results_pages = <<>> /\ Sanitize)
    \/ (fields = <<>> /\ items = <<>> /\ Parse)
    \/ MergeParsed

SpecCore == Init /\ [][NextCore]_vars

----------------------------------------------------------------------------
(* Properties of the aggregator *)

HeaderFields == {"invoiceDate", "paymentTerms", "total"}

Field(d, f) ==
    CASE f = "invoiceDate"  -> d.invoiceDate
      [] f = "paymentTerms" -> d.paymentTerms
      [] f = "total"        -> d.total

Min(S) == CHOOSE x \in S : \A y \in S : x <= y

\* positions of the sorted group g whose document has a non-empty f
NonEmptyAt(g, f) ==
    {k \in 1..Len(group_sorted[g]) : Truthy(Field(docs[group_sorted[g][k]], f))}

\* C1: every header field of a merged record is the value of the first
\* document of its score-sorted group that has the field non-empty
C1_HeaderFillFirstNonEmpty ==
    pc = "merged" =>
        \A g \in 1..Len(merged) : \A f \in HeaderFields :
            NonEmptyAt(g, f) # {} =>
                Field(merged[g], f)
                    = Field(docs[group_sorted[g][Min(NonEmptyAt(g, f))]], f)

\* a group of three whose base lacks the total, which the second and the
\* third document both supply
C1_Witness ==
    /\ pc = "merged"
    /\ \E g \in 1..Len(merged) :
        /\ Len(group_sorted[g]) = 3
        /\ NonEmptyAt(g, "total") = {2, 3}
        /\ NonEmptyAt(g, "invoiceDate") = {1}
        /\ merged[g].total = docs[group_sorted[g][2]].total

IsBlank(v) == v = None \/ \A k \in 1..Len(v) : v[k] \in Whitespace

\* C2: no merged record mixes a document whose invoiceNumber is blank with
\* one whose trimmed invoiceNumber is non-empty
C2_BlankBucketDistinct ==
    pc = "merged" =>
        \A g \in 1..Len(group_sorted) :
            \A k, l \in 1..Len(group_sorted[g]) :
                IsBlank(docs[group_sorted[g][k]].invoiceNumber)
                    = IsBlank(docs[group_sorted[g][l]].invoiceNumber)

\* the score the claim states, in thousandths
ClaimScore(d) ==
    1000 * Cardinality({f \in HeaderFields : Truthy(Field(d, f))})
        + Len(d.lineItems)

RECURSIVE SumLens(_, _)
SumLens(g, k) ==
    IF k = 0 THEN 0
    ELSE SumLens(g, k - 1) + Len(docs[group_sorted[g][k]].lineItems)

\* C7: a group is the documents of one key by descending score, ties in
\* input order, and the merged lineItems are the members' lineItems
\* concatenated in that order
C7_SortedConcat ==
    pc = "merged" =>
        \A g \in 1..Len(merged) :
            LET gs == group_sorted[g]
            IN  /\ \A k, l \in 1..Len(gs) :
                     k < l =>
                        \/ ClaimScore(docs[gs[k]]) > ClaimScore(docs[gs[l]])
                        \/ /\ ClaimScore(docs[gs[k]]) = ClaimScore(docs[gs[l]])
                           /\ gs[k] < gs[l]
                /\ {gs[k] : k \in 1..Len(gs)}
                     = {i \in 1..Len(docs) : key_of(docs[i]) = key_of(docs[gs[1]])}
                /\ Len(merged[g].lineItems) = SumLens(g, Len(gs))
                /\ \A k \in 1..Len(gs) :
                     SubSeq(merged[g].lineItems,
                            SumLens(g, k - 1) + 1, SumLens(g, k))
                         = docs[gs[k]].lineItems

\* a group of three with line items in which the last input document scores
\* highest and the first two tie
C7_Witness ==
    /\ pc = "merged"
    /\ \E g \in 1..Len(merged) :
        /\ group_sorted[g] = <<3, 1, 2>>
        /\ ClaimScore(docs[1]) = ClaimScore(docs[2])
        /\ Len(merged[g].lineItems) = 3

\* C8: a document alone in its group is returned with its five fields as
\* they are
C8_SingletonUnchanged ==
    pc = "merged" =>
        \A i \in 1..Len(docs) :
            (\A j \in 1..Len(docs) : j # i => key_of(docs[j]) # key_of(docs[i]))
                => \E g \in 1..Len(merged) :
                      /\ group_sorted[g] = <<i>>
                      /\ merged[g].invoiceNumber = docs[i].invoiceNumber
                      /\ merged[g].invoiceDate = docs[i].invoiceDate
                      /\ merged[g].total = docs[i].total
                      /\ merged[g].paymentTerms = docs[i].paymentTerms
                      /\ merged[g].lineItems = docs[i].lineItems

\* a document with a padded invoice number, headers and a line item, alone
\* in its group beside another group
C8_Witness ==
    /\ pc = "merged"
    /\ Len(merged) = 2
    /\ \E g \in 1..2 :
        /\ Len(group_sorted[g]) = 1
        /\ merged[g].invoiceNumber = <<" ", "A">>
        /\ Truthy(merged[g].total)
        /\ merged[g].lineItems # <<>>

\* C3: an operation leaves the list it was handed, and the documents in
\* it, as they were when it was called
C3_InputsUnmutated ==
    pc \in {"merged", "chosen"} => docs = docs_in

\* positions of the input whose total parses, or every position if none does
ClaimCandidates ==
    LET parsing == {i \in 1..Len(docs_in) : to_decimal_maybe(docs_in[i].total) # NoneDec}
    IN  IF parsing # {} THEN parsing ELSE 1..Len(docs_in)

\* the number of line items of d with at least one non-empty field
ClaimRows(d) ==
    Cardinality({k \in 1..Len(d.lineItems) :
        \/ Truthy(d.lineItems[k].description) \/ Truthy(d.lineItems[k].quantity)
        \/ Truthy(d.lineItems[k].unitPrice) \/ Truthy(d.lineItems[k].amount)})

\* C6: none on an empty list; otherwise the earliest of the candidates with
\* the most non-empty line items, the candidates being the invoices whose
\* total parses, or all of them if no total parses
C6_PrimaryChoice ==
    pc = "chosen" =>
        IF docs_in = <<>> THEN primary = None
        ELSE \E i \in ClaimCandidates :
                /\ primary = docs_in[i]
                /\ \A j \in ClaimCandidates :
                      \/ ClaimRows(docs_in[j]) < ClaimRows(docs_in[i])
                      \/ ClaimRows(docs_in[j]) = ClaimRows(docs_in[i]) /\ i <= j

\* an invoice with an unparseable total and two non-empty rows loses to the
\* earlier of two invoices with a parsed total and one non-empty row each
C6_Witness ==
    /\ pc = "chosen"
    /\ Len(docs_in) = 3
    /\ to_decimal_maybe(docs_in[1].total) = NoneDec
    /\ ClaimRows(docs_in[1]) = 2
    /\ ClaimRows(docs_in[2]) = 1
    /\ ClaimRows(docs_in[3]) = 1
    /\ Len(docs_in[3].lineItems) = 2
    /\ primary = docs_in[2]

\* the KEY blocks of the pages with a non-empty normalized key, as
\* [k, v] in page order, then block order
RECURSIVE KeyEntries(_)
KeyEntries(pages) ==
    IF pages = <<>> THEN <<>>
    ELSE LET blocks == Head(pages)
             keys   == SelectSeq(blocks, IsKeyBlock)
             all    == [n \in 1..Len(keys) |->
                          [k |-> KeyNorm(keys[n], blocks), v |-> ValNorm(keys[n], blocks)]]
         IN  SelectSeq(all, LAMBDA e : e.k # <<>>) \o KeyEntries(Tail(pages))

\* kv[k]
KvGet(d, k) == d[CHOOSE i \in 1..Len(d) : d[i].k = k].v

\* C4 as stated: a key maps to the value of the first KEY block that has it
C4_FirstKeyWins ==
    pc = "parsed" =>
        LET es == KeyEntries(fpages)
        IN  \A n \in 1..Len(es) :
                LET first == Min({m \in 1..Len(es) : es[m].k = es[n].k})
                IN  KvGet(kv, es[n].k) = es[first].v

\* C4, amended: a key maps to the value of the first KEY block that has it
\* with a non-empty value, and to the empty text if no block has one; kv
\* has one item per key, and no other
C4_FirstNonEmptyWins ==
    pc = "parsed" =>
        LET es == KeyEntries(fpages)
        IN  /\ \A n \in 1..Len(es) :
                  LET valued == {m \in 1..Len(es) : es[m].k = es[n].k /\ es[m].v # <<>>}
                  IN  KvGet(kv, es[n].k) = (IF valued = {} THEN <<>> ELSE es[Min(valued)].v)
            /\ {kv[i].k : i \in 1..Len(kv)} = {es[n].k : n \in 1..Len(es)}
            /\ Len(kv) = Cardinality({es[n].k : n \in 1..Len(es)})

\* three KEY blocks on two pages spell one key in different cases; the
\* first has no value and the later two have different ones
C4_Witness ==
    /\ pc = "parsed"
    /\ Len(fpages) = 2
    /\ LET es == KeyEntries(fpages)
       IN  /\ Len(es) = 3
           /\ es[1].k = es[2].k /\ es[2].k = es[3].k
           /\ es[1].v = <<>> /\ es[2].v # <<>> /\ es[3].v # <<>>
           /\ es[2].v # es[3].v
           /\ kv = <<[k |-> K_inv_no, v |-> es[2].v]>>

\* C5 as stated: the fallback changes none of invoiceNumber, invoiceDate and
\* paymentTerms that was non-empty, and never the total or the lineItems
C5_FallbackOnlyFillsGaps ==
    pc = "patched" =>
        /\ Truthy(primary_in.invoiceNumber)
              => primary.invoiceNumber = primary_in.invoiceNumber
        /\ Truthy(primary_in.invoiceDate)
              => primary.invoiceDate = primary_in.invoiceDate
        /\ Truthy(primary_in.paymentTerms)
              => primary.paymentTerms = primary_in.paymentTerms
        /\ primary.total = primary_in.total
        /\ primary.lineItems = primary_in.lineItems

\* C5, amended: an invoiceNumber is kept if it is non-empty and not
\* currency-like; the rest as stated
C5_FallbackKeepsUsableFields ==
    pc = "patched" =>
        /\ Truthy(primary_in.invoiceNumber) /\ ~is_currency_like(primary_in.invoiceNumber)
              => primary.invoiceNumber = primary_in.invoiceNumber
        /\ Truthy(primary_in.invoiceDate)
              => primary.invoiceDate = primary_in.invoiceDate
        /\ Truthy(primary_in.paymentTerms)
              => primary.paymentTerms = primary_in.paymentTerms
        /\ primary.total = primary_in.total
        /\ primary.lineItems = primary_in.lineItems

\* the forms hold a number, a date and terms; the primary has a usable
\* number and a date and lacks the terms, which alone are patched
C5_Witness ==
    /\ pc = "patched"
    /\ fstatus = "SUCCEEDED"
    /\ Len(kv) = 3
    /\ \A i \in 1..3 : Truthy(kv[i].v) /\ ~is_currency_like(kv[i].v)
    /\ primary_in.invoiceNumber = <<"A", "7">>
    /\ Truthy(primary_in.invoiceDate)
    /\ ~Truthy(primary_in.paymentTerms)
    /\ primary.paymentTerms = _extract_from_kv(kv, "RE_TERMS")
    /\ primary.invoiceNumber = primary_in.invoiceNumber
    /\ primary.invoiceDate = primary_in.invoiceDate
    /\ primary.lineItems # <<>>

----------------------------------------------------------------------------
(* Properties of the line-item resolver *)

\* the pair search runs: the quantity parses and both lists hold a candidate
SearchRuns ==
    /\ pc = "extracted"
    /\ to_decimal_qty(locals.qty_raw) # NoneDec
    /\ locals.rate_cands # <<>>
    /\ locals.amt_cands # <<>>

\* the pairs (rate position, amount position) whose two values parse
ParsedPairs ==
    {p \in (1..Len(locals.rate_cands)) \X (1..Len(locals.amt_cands)) :
        /\ to_decimal_maybe(locals.rate_cands[p[1]]) # NoneDec
        /\ to_decimal_maybe(locals.amt_cands[p[2]]) # NoneDec}

\* the adjusted error of the pair p as the contract of the resolver states it
ClaimAdjErr(p) ==
    LET r  == locals.rate_cands[p[1]]
        a  == locals.amt_cands[p[2]]
        qd == to_decimal_qty(locals.qty_raw)
        rd == to_decimal_maybe(r)
        ad == to_decimal_maybe(a)
        e  == DecAbs(DecSub(quantize(DecMul(qd, rd)), ad))
    IN  DecNorm(e.u,
                e.f + (IF is_currency_like(r) THEN 30000 ELSE 0)
                    - (IF is_currency_like(a) THEN 50000 ELSE 0)
                    - (IF ad.f % 10000 = 0 THEN 10000 ELSE 0)
                    + (IF ~DecLt(qd, Dec(1, 0)) /\ DecLt(ad, rd) THEN 100000 ELSE 0))

\* p comes before q, rate candidates outer, amount candidates inner
PairBefore(p, q) == p[1] < q[1] \/ (p[1] = q[1] /\ p[2] < q[2])

\* the first of the pairs of minimum adjusted error
ClaimBest ==
    CHOOSE p \in ParsedPairs :
        \A q \in ParsedPairs :
            \/ DecLt(ClaimAdjErr(p), ClaimAdjErr(q))
            \/ ClaimAdjErr(p) = ClaimAdjErr(q) /\ ~PairBefore(q, p)

\* (rate, amount) of the first pair of minimum adjusted error
ClaimBestPair ==
    <<locals.rate_cands[ClaimBest[1]], locals.amt_cands[ClaimBest[2]]>>

\* C9: when the quantity parses and both candidate lists are non-empty, the
\* chosen (rate, amount) is the pair of minimum adjusted error among the
\* pairs whose two values parse, the first such pair in (rate outer, amount
\* inner) order
C9_MinAdjustedError ==
    SearchRuns /\ ParsedPairs # {} => locals.chosen = ClaimBestPair

\* C9, where it holds: the same, when some pair has an adjusted error below
\* the 1e9 the search starts from
C9_MinBelowStart ==
    (/\ SearchRuns
     /\ \E p \in ParsedPairs : DecLt(ClaimAdjErr(p), Dec(1000000000, 0)))
        => locals.chosen = ClaimBestPair

\* two pairs tie at the minimum and the search keeps the first of them
C9_TieKeepsFirst ==
    /\ SearchRuns
    /\ \E p, q \in ParsedPairs : p # q /\ ClaimAdjErr(p) = ClaimAdjErr(q)
                                 /\ p = ClaimBest
    /\ locals.chosen = ClaimBestPair

\* the positions of amt_cands0 whose candidate is not close to the hint: it
\* does not parse, or its decimal is further from the hint than the tolerance
ClaimFar ==
    {k \in 1..Len(locals.amt_cands0) :
        \/ to_decimal_maybe(locals.amt_cands0[k]) = NoneDec
        \/ ~_close(to_decimal_maybe(locals.amt_cands0[k]), locals.total_hint_num)}

\* lst is the candidates of amt_cands0 at the positions of ClaimFar, in
\* their order
ClaimIsFarOnes(lst) ==
    /\ Len(lst) = Cardinality(ClaimFar)
    /\ \A k \in 1..Len(lst) :
          \E j \in ClaimFar :
             /\ Cardinality({i \in ClaimFar : i <= j}) = k
             /\ lst[k] = locals.amt_cands0[j]

\* C14: with a total hint, the amount candidates of the resolution are the
\* original ones not close to the hint, in their order, unparseable ones
\* kept; the original list when all of them are close; a non-empty list
\* never becomes empty
C14_EchoFilter ==
    pc = "extracted" =>
        /\ locals.total_hint_num # NoneDec =>
              IF ClaimFar # {} THEN ClaimIsFarOnes(locals.amt_cands)
              ELSE locals.amt_cands = locals.amt_cands0
        /\ locals.amt_cands0 # <<>> => locals.amt_cands # <<>>

\* a hint exists, a close candidate is removed and an unparseable one is kept
C14_Witness ==
    /\ pc = "extracted"
    /\ locals.total_hint_num # NoneDec
    /\ Len(locals.amt_cands) < Len(locals.amt_cands0)
    /\ \E k \in 1..Len(locals.amt_cands) :
          to_decimal_maybe(locals.amt_cands[k]) = NoneDec

\* every candidate is close to the hint and the list is used as it was
C14_WitnessAllClose ==
    /\ pc = "extracted"
    /\ locals.total_hint_num # NoneDec
    /\ locals.amt_cands0 # <<>>
    /\ ClaimFar = {}
    /\ locals.amt_cands = locals.amt_cands0

\* d rounded to two decimals, a half rounded up; d >= 0
ClaimHalfUp(d) ==
    DecNorm(d.u, (IF d.f % 10000 >= 5000 THEN (d.f \div 10000) + 1
                  ELSE d.f \div 10000) * 10000)

\* the adjusted error of the pair (r, a) with expected rounded half-up
ClaimErrHalfUp(qd, r, a) ==
    LET rd == to_decimal_maybe(r)
        ad == to_decimal_maybe(a)
        e  == DecAbs(DecSub(ClaimHalfUp(DecMul(qd, rd)), ad))
    IN  DecNorm(e.u,
                e.f + (IF is_currency_like(r) THEN 30000 ELSE 0)
                    - (IF is_currency_like(a) THEN 50000 ELSE 0)
                    - (IF ad.f % 10000 = 0 THEN 10000 ELSE 0)
                    + (IF ~DecLt(qd, Dec(1, 0)) /\ DecLt(ad, rd) THEN 100000 ELSE 0))

\* C13: the expected line total the pair search scores with is
\* quantity*rate rounded to two decimals half-up, so the error kept with the
\* best pair is the adjusted error computed from that expected total
C13_ExpectedHalfUp ==
    SearchRuns /\ locals.best_pair.r # None =>
        locals.best_pair.err = ClaimErrHalfUp(to_decimal_qty(locals.qty_raw),
                                              locals.best_pair.r, locals.best_pair.a)

\* C13, where it holds: the same when quantity*rate is not halfway between
\* two cent values
C13_ExpectedOffHalf ==
    (/\ SearchRuns
     /\ locals.best_pair.r # None
     /\ DecMul(to_decimal_qty(locals.qty_raw),
               to_decimal_maybe(locals.best_pair.r)).f % 10000 # 5000)
        => locals.best_pair.err = ClaimErrHalfUp(to_decimal_qty(locals.qty_raw),
                                                 locals.best_pair.r, locals.best_pair.a)

\* the swap rule on quantity q, rate r and amount a, the products as they are
ClaimSwapExact(q, r, a) ==
    /\ q # NoneDec /\ r # NoneDec /\ a # NoneDec
    /\ ~_close(DecMul(q, r), a)
    /\ _close(DecMul(q, a), r)

\* the swap rule, the products rounded to two decimals
ClaimSwapRounded(q, r, a) ==
    /\ q # NoneDec /\ r # NoneDec /\ a # NoneDec
    /\ ~_close(quantize(DecMul(q, r)), a)
    /\ _close(quantize(DecMul(q, a)), r)

\* C10: after pair selection and gap filling, unitPrice and amount are
\* returned exchanged if quantity, rate and amount parse, quantity*rate is
\* not close to amount and quantity*amount is close to rate, and unexchanged
\* in every other case; a row returned after a swap has quantity*unitPrice
\* close to amount, and the rule does not exchange the returned row back
C10_SwapRule ==
    pc = "extracted" =>
        LET q  == to_decimal_qty(row.quantity)
            r  == to_decimal_maybe(locals.filled[1])
            a  == to_decimal_maybe(locals.filled[2])
            up == to_decimal_maybe(row.unitPrice)
            am == to_decimal_maybe(row.amount)
        IN  /\ IF ClaimSwapExact(q, r, a)
               THEN row.unitPrice = locals.filled[2] /\ row.amount = locals.filled[1]
               ELSE row.unitPrice = locals.filled[1] /\ row.amount = locals.filled[2]
            /\ locals.swapped =>
                  _close(DecMul(q, up), am) /\ ~ClaimSwapExact(q, up, am)

\* C10, amended: the same with each product rounded to two decimals before
\* it is compared
C10_SwapRuleRounded ==
    pc = "extracted" =>
        LET q  == to_decimal_qty(row.quantity)
            r  == to_decimal_maybe(locals.filled[1])
            a  == to_decimal_maybe(locals.filled[2])
            up == to_decimal_maybe(row.unitPrice)
            am == to_decimal_maybe(row.amount)
        IN  /\ IF ClaimSwapRounded(q, r, a)
               THEN row.unitPrice = locals.filled[2] /\ row.amount = locals.filled[1]
               ELSE row.unitPrice = locals.filled[1] /\ row.amount = locals.filled[2]
            /\ locals.swapped =>
                  /\ _close(quantize(DecMul(q, up)), am)
                  /\ ~ClaimSwapRounded(q, up, am)

\* quantity 2, rate 100.00 and amount 51.002 are exchanged: 2 * 51.002 is
\* 102.004, which rounds to 102.00, within 2% of 100.00
C10_Witness ==
    /\ pc = "extracted"
    /\ locals.swapped
    /\ locals.filled = <<<<"1", "0", "0", ".", "0", "0">>,
                         <<"5", "1", ".", "0", "0", "2">>>>
    /\ row.quantity = <<"2">>
    /\ row.unitPrice = <<"5", "1", ".", "0", "0", "2">>
    /\ row.amount = <<"1", "0", "0", ".", "0", "0">>

----------------------------------------------------------------------------
(* Properties of the line-item sanitizer *)

\* the k-th returned row and the row of the input it was made from
OutRow(k) == cleaned[k]

InRow(k) == items[kept[k]]

\* the decimals the caller supplied in the row it
SuppliedQty(it) == to_decimal_qty(it.quantity)

SuppliedPrice(it) == to_decimal_maybe(it.unitPrice)

SuppliedAmount(it) == to_decimal_maybe(it.amount)

\* C11: for every input row that is kept, each of quantity, unitPrice and
\* amount that parses to a decimal in the input is in the output row with
\* that same decimal value
C11_NeverOverwrites ==
    pc = "sanitized" =>
        \A k \in 1..Len(cleaned) :
            /\ SuppliedQty(InRow(k)) # NoneDec
                  => OutRow(k).quantity = SuppliedQty(InRow(k))
            /\ SuppliedPrice(InRow(k)) # NoneDec
                  => OutRow(k).unitPrice = SuppliedPrice(InRow(k))
            /\ SuppliedAmount(InRow(k)) # NoneDec
                  => OutRow(k).amount = SuppliedAmount(InRow(k))

\* C11, amended: a supplied unitPrice, a supplied amount and a supplied
\* quantity other than zero are in the output row with the same value; a
\* supplied quantity of zero is returned as zero or as null
C11_NeverOverwritesButZeroQty ==
    pc = "sanitized" =>
        \A k \in 1..Len(cleaned) :
            /\ SuppliedQty(InRow(k)) # NoneDec /\ SuppliedQty(InRow(k)) # Dec(0, 0)
                  => OutRow(k).quantity = SuppliedQty(InRow(k))
            /\ SuppliedQty(InRow(k)) = Dec(0, 0)
                  => OutRow(k).quantity = Dec(0, 0) \/ OutRow(k).quantity = NoneDec
            /\ SuppliedPrice(InRow(k)) # NoneDec
                  => OutRow(k).unitPrice = SuppliedPrice(InRow(k))
            /\ SuppliedAmount(InRow(k)) # NoneDec
                  => OutRow(k).amount = SuppliedAmount(InRow(k))

\* a kept row supplies quantity 2, unitPrice 50.00 and amount 150.00, which
\* do not agree, and a kept row supplies only an amount, whose quantity
\* stays null
C11_Witness ==
    /\ pc = "sanitized"
    /\ Len(cleaned) = 2
    /\ SuppliedQty(InRow(1)) = Dec(2, 0)
    /\ SuppliedPrice(InRow(1)) = Dec(50, 0)
    /\ SuppliedAmount(InRow(1)) = Dec(150, 0)
    /\ OutRow(1).quantity = Dec(2, 0)
    /\ OutRow(1).unitPrice = Dec(50, 0)
    /\ OutRow(1).amount = Dec(150, 0)
    /\ SuppliedQty(InRow(2)) = NoneDec
    /\ SuppliedPrice(InRow(2)) = Dec(50, 0)
    /\ OutRow(2).quantity = Dec(3, 0)

\* C12: a quantity that parses to zero is replaced by null if and only if
\* the amount, supplied or computed, is present and non-zero and the
\* unitPrice is absent; then the amount is unchanged and no quantity is
\* inferred; with a unitPrice present, whatever its value, zero is kept
C12_ZeroQtyRule ==
    pc = "sanitized" =>
        \A k \in 1..Len(cleaned) :
            SuppliedQty(InRow(k)) = Dec(0, 0) =>
                /\ OutRow(k).quantity = NoneDec
                      <=> /\ OutRow(k).amount # NoneDec
                          /\ OutRow(k).amount # Dec(0, 0)
                          /\ SuppliedPrice(InRow(k)) = NoneDec
                /\ OutRow(k).quantity = NoneDec
                      => OutRow(k).amount = SuppliedAmount(InRow(k))
                /\ SuppliedPrice(InRow(k)) # NoneDec
                      => OutRow(k).quantity = Dec(0, 0)

----------------------------------------------------------------------------
(* Properties of the core operations on zero and empty input *)

\* li_extract returned the dict row: it did not raise
RowReturned ==
    DOMAIN row = {"description", "quantity", "unitPrice", "amount"}

\* the quantity, and the rate and amount before the gaps are filled
CoreQd == to_decimal_qty(locals.qty_raw)

RateInferred == locals.chosen[1] = None /\ locals.filled[1] # None

\* r is a / q rounded to two decimals: q * r is within q * 0.005 of a
ClaimIsRoundedQuotient(r, a, q) ==
    DecLe(DecAbs(DecSub(DecMul(q, r), a)), DecMul(q, Dec(0, 5000)))

\* C15, li_extract: a row is returned; a rate is inferred only for a
\* quantity that is not zero, and is then amount/quantity rounded to two
\* decimals; for a zero quantity the rate stays null; a field whose
\* candidate list is empty and that cannot be inferred is null
C15_LiExtractGuarded ==
    pc = "extracted" =>
        /\ RowReturned
        /\ RateInferred =>
              /\ CoreQd # NoneDec
              /\ CoreQd # Dec(0, 0)
              /\ to_decimal_maybe(locals.filled[2]) # NoneDec
              /\ to_decimal_maybe(locals.filled[1]) # NoneDec
              /\ ClaimIsRoundedQuotient(to_decimal_maybe(locals.filled[1]),
                                        to_decimal_maybe(locals.filled[2]), CoreQd)
        /\ (locals.chosen[1] = None /\ CoreQd = Dec(0, 0)) => row.unitPrice = None
        /\ (/\ locals.rate_cands = <<>>
            /\ \/ CoreQd \in {NoneDec, Dec(0, 0)}
               \/ to_decimal_maybe(locals.filled[2]) = NoneDec)
              => row.unitPrice = None
        /\ (/\ locals.amt_cands0 = <<>>
            /\ \/ CoreQd = NoneDec
               \/ to_decimal_maybe(locals.chosen[1]) = NoneDec)
              => row.amount = None

\* the quantity of the k-th output row is amount/unitPrice rounded to three
\* decimals, or the integer within 0.001 of that
ClaimIsQuotient(k) ==
    DecLe(DecAbs(DecSub(DecMul(OutRow(k).quantity, OutRow(k).unitPrice),
                        OutRow(k).amount)),
          DecMul(OutRow(k).unitPrice, Dec(0, 1500)))

\* C15, sanitize_line_items: a quantity is inferred only for a unitPrice
\* that is not zero; a row with a zero unitPrice is still produced, its
\* quantity null when none was supplied
C15_SanitizeGuarded ==
    pc = "sanitized" =>
        /\ \A k \in 1..Len(cleaned) :
              (SuppliedQty(InRow(k)) = NoneDec /\ OutRow(k).quantity # NoneDec) =>
                  /\ OutRow(k).unitPrice \notin {NoneDec, Dec(0, 0)}
                  /\ OutRow(k).amount # NoneDec
                  /\ ClaimIsQuotient(k)
        /\ \A i \in 1..Len(items) :
              (SuppliedPrice(items[i]) = Dec(0, 0) /\ items[i].description # D_Total) =>
                  \E k \in 1..Len(cleaned) :
                     /\ kept[k] = i
                     /\ OutRow(k).unitPrice = Dec(0, 0)
                     /\ SuppliedQty(items[i]) = NoneDec => OutRow(k).quantity = NoneDec

\* C15, empty input: merge_documents_by_invoice_number, sanitize_line_items
\* and parse_expense_documents return an empty list; a document without
\* summary fields and line items is a record of nulls and no rows
C15_EmptyInEmptyOut ==
    /\ (pc = "sanitized" /\ items = <<>>) => cleaned = <<>>
    /\ (pc \in {"parsed", "merged"} /\ results_pages = <<>>) => parsed = <<>>
    /\ (pc = "merged" /\ docs_in = <<>>) => merged = <<>>
    /\ pc = "parsed" =>
          /\ Len(parsed) = Len(Concat(results_pages))
          /\ \A k \in 1..Len(parsed) :
                /\ Len(parsed[k].lineItems)
                      = Len(Concat(Concat(results_pages)[k].LineItemGroups))
                /\ Concat(results_pages)[k].SummaryFields = <<>> =>
                      /\ parsed[k].invoiceNumber = None
                      /\ parsed[k].invoiceDate = None
                      /\ parsed[k].total = None
                      /\ parsed[k].paymentTerms = None

\* C15: no core operation raises on zero or empty input: the rate and the
\* quantity are inferred only through a divisor that is not zero, in the zero
\* cases the field stays null and the record is produced, and empty inputs
\* give empty lists
C15_NeverFatal ==
    /\ C15_LiExtractGuarded
    /\ C15_SanitizeGuarded
    /\ C15_EmptyInEmptyOut

\* li_extract on a zero quantity and an amount, without a rate: the row is
\* returned with a null unitPrice
C15_Witness ==
    /\ pc = "extracted"
    /\ CoreQd = Dec(0, 0)
    /\ locals.chosen[1] = None
    /\ to_decimal_maybe(row.amount) # NoneDec
    /\ RowReturned
    /\ row.unitPrice = None

\* sanitize_line_items on a zero unitPrice and an amount, without a quantity
C15_WitnessZeroPrice ==
    /\ pc = "sanitized"
    /\ Len(cleaned) = 1
    /\ SuppliedQty(items[1]) = NoneDec
    /\ cleaned[1].unitPrice = Dec(0, 0)
    /\ cleaned[1].amount = Dec(150, 0)
    /\ cleaned[1].quantity = NoneDec

\* no pages: nothing parsed, nothing merged
C15_WitnessNoPages ==
    /\ pc = "merged"
    /\ results_pages = <<>>
    /\ parsed = <<>>
    /\ merged = <<>>

\* a rate inferred from a quantity that is not zero
C15_WitnessInferred ==
    /\ pc = "extracted"
    /\ RateInferred
    /\ row.unitPrice # None

====
